---------------------------- MODULE Spec2Model ----------------------------
(***************************************************************************)
(* Model of the pantry scraper.                                            *)
(*                                                                         *)
(*   flask-scraper-backend.py : the process-wide scraping_state, the HTTP  *)
(*     handlers start_scrape / stop_scrape / get_status (Flask serves each *)
(*     request on its own thread) and the scrape_in_background worker.     *)
(*     Every read or write of scraping_state is one step; the GIL makes a  *)
(*     single dict access atomic and nothing else.                         *)
(*   foodpantries-scraper.py : Pantry.get_fingerprint, Pantry.merge_with,  *)
(*     DeduplicatedPantryDatabase.add_pantry, MultiSourceScraper (the      *)
(*     loop over the sources and the loops over their URLs) and the        *)
(*     cascades of patterns of the detail scrapers.                        *)
(*                                                                         *)
(* Strings are sequences of one-character strings.  An Optional[str] is a  *)
(* sequence of length 0 (None) or 1 (the string), so that None and the     *)
(* empty string stay distinct as they are in Python.                       *)
(***************************************************************************)
EXTENDS Integers, Sequences, FiniteSets, TLC

VARIABLES
    \* scraping_state (flask-scraper-backend.py:21-28)
    is_scraping, current, total, status, data, stop_event,
    \* request threads running start_scrape
    cpc, cresp, climit, cgeocode,
    \* scrape_in_background threads
    launched, wpc, wi, wn, wlimit, wgeocode, wdata, wcount,
    \* the request thread running get_status
    spc, snap,
    \* history: job tuples seen during the get_status call in flight
    seen,
    \* history: where the worker stood when stop was first requested in this run
    stopAt,
    \* history: whether stop was last requested while is_scraping was False,
    \* and the first worker thread started after that request (0: none yet)
    idleStop,
    \* DeduplicatedPantryDatabase (foodpantries-scraper.py:56-58)
    pantries, fingerprints,
    \* last add_pantry call: its argument and return value
    arg, ret, adds,
    \* history: the records passed to add_pantry so far
    added,
    \* a caller of Pantry.merge_with and Pantry.get_fingerprint: the records
    \* it holds and the values the calls returned, by name
    recA, recB, recC, results,
    \* MultiSourceScraper.scrape_state (foodpantries-scraper.py:465-542): its
    \* arguments, the source and the URL it is at, self.source_counts and
    \* what it has printed about sources it could not run
    sources, limit, src_i, src_pc, src_urls, source_counts, printed,
    \* history: the sources whose scraper ran, and the records extracted
    ran, extracted,
    \* one cascade of patterns of a detail scraper (foodpantries-scraper.py:
    \* 395-435, flask-scraper-backend.py:313-325): the cascade, what each
    \* pattern finds in the page, the pattern the loop is at, the field's value
    cascade, page_text, pattern_i, field_value, cascade_pc,
    \* history: the patterns searched for
    searched

jobVars == <<is_scraping, current, total, status, data, stop_event>>
clientVars == <<cpc, cresp, climit, cgeocode>>
workerVars == <<launched, wpc, wi, wn, wlimit, wgeocode, wdata, wcount>>
statusVars == <<spc, snap>>
storeVars == <<pantries, fingerprints, arg, ret, adds, added>>
callVars == <<recA, recB, recC, results>>
coordVars ==
    <<sources, limit, src_i, src_pc, src_urls, source_counts, printed, ran,
      extracted>>
cascadeVars ==
    <<cascade, page_text, pattern_i, field_value, cascade_pc, searched>>
vars ==
    <<jobVars, clientVars, workerVars, statusVars, seen, stopAt, idleStop, storeVars,
      callVars, coordVars, cascadeVars>>

---------------------------------------------------------------------------
(* Bounds *)

\* detail URLs scrape_state_page may discover
MaxUrls == 2
\* add_pantry calls in one behaviour of the store
MaxAdds == 3

\* request threads that call start_scrape
Clients == {"c1", "c2"}
\* threads start_scrape may create, numbered in the order of their creation
Workers == {1, 2}

---------------------------------------------------------------------------
(* Optional strings *)

None == << >>
Some(s) == <<s>>
\* Python truthiness of an Optional[str]: neither None nor ""
Truthy(v) == v # None /\ v[1] # << >>

---------------------------------------------------------------------------
(* Pantry (foodpantries-scraper.py:11-50) *)

Whitespace == {" "}
Digits == {"1", "5", "6"}

\* str.lower() on one character
LowerChar(c) == CASE c = "A" -> "a" [] c = "B" -> "b" [] OTHER -> c

lower(s) == [i \in 1..Len(s) |-> LowerChar(s[i])]

RECURSIVE lstrip(_)
lstrip(s) == IF s # << >> /\ Head(s) \in Whitespace THEN lstrip(Tail(s)) ELSE s

RECURSIVE rstrip(_)
rstrip(s) ==
    IF s # << >> /\ s[Len(s)] \in Whitespace
    THEN rstrip(SubSeq(s, 1, Len(s) - 1))
    ELSE s

\* str.strip()
strip(s) == rstrip(lstrip(s))

\* re.sub(r'\D', '', s)
digits_only(s) == SelectSeq(s, LAMBDA c : c \in Digits)

\* hashlib.md5(...).hexdigest(): a digest determined by its input, taken to
\* be collision free
md5(s) == <<"md5", s>>

\* get_fingerprint with line 31 leaving out .lower()
get_fingerprint_cased(p) ==
    LET name_norm == IF Truthy(p.name) THEN strip(p.name[1]) ELSE << >>
        addr_norm == IF Truthy(p.address) THEN strip(lower(p.address[1])) ELSE << >>
        phone_norm == IF Truthy(p.phone) THEN digits_only(p.phone[1]) ELSE << >>
        zip_or == IF Truthy(p.zip) THEN p.zip[1] ELSE << >>
    IN  md5(name_norm \o <<"|">> \o addr_norm \o <<"|">> \o phone_norm
            \o <<"|">> \o zip_or)

get_fingerprint(p) ==
    LET name_norm == IF Truthy(p.name) THEN strip(lower(p.name[1])) ELSE << >>
        addr_norm == IF Truthy(p.address) THEN strip(lower(p.address[1])) ELSE << >>
        phone_norm == IF Truthy(p.phone) THEN digits_only(p.phone[1]) ELSE << >>
        zip_or == IF Truthy(p.zip) THEN p.zip[1] ELSE << >>
    IN  md5(name_norm \o <<"|">> \o addr_norm \o <<"|">> \o phone_norm
            \o <<"|">> \o zip_or)

PantryFields ==
    {"name", "address", "city", "state", "zip", "phone", "fax", "email",
     "website", "hours", "description", "requirements", "source_url",
     "source_site"}

\* len(str(v)) of a truthy field
StrLen(v) == Len(v[1])

\* a or b
Or(a, b) == IF Truthy(a) THEN a ELSE b

\* merge_field with line 46 comparing by `>`: a tie keeps other_val
merge_field_strict(self_val, other_val) ==
    IF Truthy(self_val) /\ Truthy(other_val)
    THEN IF StrLen(self_val) > StrLen(other_val) THEN self_val ELSE other_val
    ELSE Or(self_val, other_val)

\* merge_field with line 45 testing `self_val or other_val`: str(None) is
\* "None", four characters long
merge_field_any(self_val, other_val) ==
    LET len_str(v) == IF v = None THEN 4 ELSE Len(v[1])
    IN  IF Truthy(self_val) \/ Truthy(other_val)
        THEN IF len_str(self_val) >= len_str(other_val)
             THEN self_val
             ELSE other_val
        ELSE Or(self_val, other_val)

\* merge_field with line 48 storing str(self_val or other_val): None is
\* stored as the string "None"
merge_field_str(self_val, other_val) ==
    LET str(v) == IF v = None THEN <<"N", "o", "n", "e">> ELSE v[1]
    IN  IF Truthy(self_val) /\ Truthy(other_val)
        THEN IF StrLen(self_val) >= StrLen(other_val)
             THEN self_val
             ELSE other_val
        ELSE Some(str(Or(self_val, other_val)))

merge_field(self_val, other_val) ==
    IF Truthy(self_val) /\ Truthy(other_val)
    THEN IF StrLen(self_val) >= StrLen(other_val) THEN self_val ELSE other_val
    ELSE Or(self_val, other_val)

\* merge_with leaving the provenance of the merged record unset
merge_with_unsourced(self, other) ==
    [field \in PantryFields |->
        IF field \in {"source_url", "source_site"}
        THEN None
        ELSE merge_field(self[field], other[field])]

merge_with(self, other) ==
    [field \in PantryFields |-> merge_field(self[field], other[field])]

---------------------------------------------------------------------------
(* scraping_state and the values its fields take *)

\* scraping_state['status']: the message kind and the numbers formatted in
St(kind, i, n) == [kind |-> kind, i |-> i, n |-> n]

\* the dict scrape_pantry_details builds (flask-scraper-backend.py:265-280),
\* with the fields the job and the fingerprint read
PageDict(name, address, city, state, zip, phone) ==
    [url |-> 0, name |-> name, address |-> address, city |-> city,
     state |-> state, zip |-> zip, phone |-> phone, latitude |-> None]

\* a detail page with a "Contact Information" block
FullPage ==
    PageDict(Some(<<"A", "b">>), Some(<<"1", " ", "a">>), Some(<<"b">>),
             Some(<<"A", "B">>), Some(<<"6">>), Some(<<"(", "5", ")", "1">>))

\* a detail page on which no regular expression matches
EmptyPage == PageDict(None, None, None, None, None, None)

\* what scrape_pantry_details returns for a URL: no dict (an exception was
\* caught, lines 352-356) or the dict it built
NoData == << >>
ScrapeOutcomes == {NoData, <<EmptyPage>>, <<FullPage>>}

\* the 'limit' of the request body: absent, an integer, or a JSON string
LimitInputs ==
    {[kind |-> "none", n |-> 0], [kind |-> "int", n |-> 1],
     [kind |-> "str", n |-> 0]}
NoLimit == [kind |-> "none", n |-> 0]

JobTuple == <<is_scraping, current, total, status, Len(data)>>

\* clients between the is_scraping check and the thread start
InFlight == {c \in Clients : cpc[c] \notin {"idle", "L461"}}

Active(w) == wpc[w] \notin {"idle", "done"}
ActiveWorkers == {w \in Workers : Active(w)}

JobInit ==
    /\ is_scraping = FALSE
    /\ current = 0
    /\ total = 0
    /\ status = St("", 0, 0)
    /\ data = << >>
    /\ stop_event = FALSE
    /\ cpc = [c \in Clients |-> "idle"]
    /\ cresp = [c \in Clients |-> "none"]
    /\ climit = [c \in Clients |-> NoLimit]
    /\ cgeocode = [c \in Clients |-> FALSE]
    /\ launched = 0
    /\ wpc = [w \in Workers |-> "idle"]
    /\ wi = [w \in Workers |-> 0]
    /\ wn = [w \in Workers |-> 0]
    /\ wlimit = [w \in Workers |-> NoLimit]
    /\ wgeocode = [w \in Workers |-> FALSE]
    /\ wdata = [w \in Workers |-> NoData]
    /\ wcount = [w \in Workers |-> 0]
    /\ spc = "idle"
    /\ snap = << >>
    /\ seen = {}
    /\ stopAt = [k |-> -1, cp |-> -1]
    /\ idleStop = [requested |-> FALSE, follower |-> 0]

StoreInit ==
    /\ pantries = << >>
    /\ fingerprints = {}
    /\ arg = << >>
    /\ ret = FALSE
    /\ adds = 0
    /\ added = {}

---------------------------------------------------------------------------
(* start_scrape (flask-scraper-backend.py:456-493) *)

CGoto(c, from, to) == cpc[c] = from /\ cpc' = [cpc EXCEPT ![c] = to]

\* a request arrives
start_request(c) ==
    /\ CGoto(c, "idle", "L461")
    /\ cresp' = [cresp EXCEPT ![c] = "none"]
    /\ UNCHANGED <<jobVars, climit, cgeocode, workerVars, statusVars, stopAt>>

\* line 461 without its test: the request goes on whatever is_scraping is
start_check_unchecked(c) ==
    /\ cpc[c] = "L461"
    /\ launched + Cardinality(InFlight) < Cardinality(Workers)
    /\ cpc' = [cpc EXCEPT ![c] = "L467"]
    /\ UNCHANGED <<jobVars, cresp, climit, cgeocode, workerVars, statusVars,
                   stopAt>>

\* line 461: the conflict check
start_check(c) ==
    /\ cpc[c] = "L461"
    /\ is_scraping \/ launched + Cardinality(InFlight) < Cardinality(Workers)
    /\ IF is_scraping
       THEN /\ cpc' = [cpc EXCEPT ![c] = "idle"]
            /\ cresp' = [cresp EXCEPT ![c] = "conflict"]
       ELSE /\ cpc' = [cpc EXCEPT ![c] = "L467"]
            /\ UNCHANGED cresp
    /\ UNCHANGED <<jobVars, climit, cgeocode, workerVars, statusVars, stopAt>>

\* lines 467-476: the request body
start_parse(c) ==
    /\ cpc[c] = "L467"
    /\ \/ /\ cpc' = [cpc EXCEPT ![c] = "idle"]
          /\ cresp' = [cresp EXCEPT ![c] = "state_required"]
          /\ UNCHANGED <<climit, cgeocode>>
       \/ \E l \in LimitInputs, g \in BOOLEAN :
            /\ cpc' = [cpc EXCEPT ![c] = "L479"]
            /\ climit' = [climit EXCEPT ![c] = l]
            /\ cgeocode' = [cgeocode EXCEPT ![c] = g]
            /\ UNCHANGED cresp
    /\ UNCHANGED <<jobVars, workerVars, statusVars, stopAt>>

\* lines 479-483: the reset, one field at a time
start_reset(c) ==
    /\ \/ /\ CGoto(c, "L479", "L480")
          /\ is_scraping' = TRUE
          /\ stopAt' = [k |-> -1, cp |-> -1]
          /\ UNCHANGED <<current, total, status, data>>
       \/ /\ CGoto(c, "L480", "L481")
          /\ current' = 0
          /\ UNCHANGED <<is_scraping, total, status, data, stopAt>>
       \/ /\ CGoto(c, "L481", "L482")
          /\ total' = 0
          /\ UNCHANGED <<is_scraping, current, status, data, stopAt>>
       \/ /\ CGoto(c, "L482", "L483")
          /\ status' = St("Starting", 0, 0)
          /\ UNCHANGED <<is_scraping, current, total, data, stopAt>>
       \/ /\ CGoto(c, "L483", "L488")
          /\ data' = << >>
          /\ UNCHANGED <<is_scraping, current, total, status, stopAt>>
    /\ UNCHANGED <<stop_event, cresp, climit, cgeocode, workerVars, statusVars>>

\* lines 486-493: the thread is started with (state, limit, geocode)
start_thread(c) ==
    /\ CGoto(c, "L488", "idle")
    /\ cresp' = [cresp EXCEPT ![c] = "started"]
    /\ launched' = launched + 1
    /\ wpc' = [wpc EXCEPT ![launched + 1] = "L365"]
    /\ wlimit' = [wlimit EXCEPT ![launched + 1] = climit[c]]
    /\ wgeocode' = [wgeocode EXCEPT ![launched + 1] = cgeocode[c]]
    /\ climit' = [climit EXCEPT ![c] = NoLimit]
    /\ cgeocode' = [cgeocode EXCEPT ![c] = FALSE]
    /\ UNCHANGED <<jobVars, wi, wn, wdata, wcount, statusVars, stopAt>>

start_scrape(c) ==
    \/ start_request(c)
    \/ start_check(c)
    \/ start_parse(c)
    \/ start_reset(c)
    \/ start_thread(c)

---------------------------------------------------------------------------
(* stop_scrape (flask-scraper-backend.py:548-555) *)

\* no stop request yet in this run
NoStop == [k |-> -1, cp |-> -1]

\* where the newest worker stands: the items it has completed (k) and the
\* checkpoints of line 397 it has passed (cp)
Progress ==
    IF launched > 0 /\ Active(launched)
    THEN LET w == launched
         IN  [k |-> wi[w],
              cp |-> IF wpc[w] \in {"L398", "L401", "L402", "L404", "L408", "L419"}
                     THEN wi[w] + 1
                     ELSE IF wpc[w] \in {"L424", "L425", "L426", "L428", "L432"}
                     THEN wn[w]
                     ELSE wi[w]]
    ELSE [k |-> 0, cp |-> 0]

stop_scrape ==
    /\ stop_event' = TRUE
    /\ stopAt' = IF is_scraping /\ stopAt = NoStop THEN Progress ELSE stopAt
    /\ UNCHANGED <<is_scraping, current, total, status, data, clientVars,
                   workerVars, statusVars>>

---------------------------------------------------------------------------
(* get_status (flask-scraper-backend.py:528-537): five reads in order *)

get_status ==
    /\ \/ /\ spc = "idle"
          /\ spc' = "L532"
          /\ snap' = << >>
       \/ /\ spc = "L532"
          /\ spc' = "L533"
          /\ snap' = <<is_scraping>>
       \/ /\ spc = "L533"
          /\ spc' = "L534"
          /\ snap' = Append(snap, current)
       \/ /\ spc = "L534"
          /\ spc' = "L535"
          /\ snap' = Append(snap, total)
       \/ /\ spc = "L535"
          /\ spc' = "L536"
          /\ snap' = Append(snap, status)
       \/ /\ spc = "L536"
          /\ spc' = "done"
          /\ snap' = Append(snap, Len(data))
       \/ /\ spc = "done"
          /\ spc' = "idle"
          /\ snap' = << >>
    /\ UNCHANGED <<jobVars, clientVars, workerVars, stopAt>>

---------------------------------------------------------------------------
(* scrape_in_background (flask-scraper-backend.py:359-432) *)

WGoto(w, from, to) == wpc[w] = from /\ wpc' = [wpc EXCEPT ![w] = to]

Min(a, b) == IF a <= b THEN a ELSE b

\* line 365
worker_clear(w) ==
    /\ WGoto(w, "L365", "L369")
    /\ stop_event' = FALSE
    /\ UNCHANGED <<is_scraping, current, total, status, data, launched, wi,
                   wn, wlimit, wgeocode, wdata, wcount>>

\* lines 369-372: the status write, then get_state_urls and the lookup of
\* the requested state in its result
worker_states(w) ==
    /\ wpc[w] = "L369"
    /\ status' = St("Fetching", 0, 0)
    /\ \E found \in BOOLEAN :
         wpc' = [wpc EXCEPT ![w] = IF found THEN "L378" ELSE "L373"]
    /\ UNCHANGED <<is_scraping, current, total, data, stop_event, launched,
                   wi, wn, wlimit, wgeocode, wdata, wcount>>

\* lines 373-375: state not found
worker_not_found(w) ==
    /\ \/ /\ WGoto(w, "L373", "L374")
          /\ status' = St("NotFound", 0, 0)
          /\ UNCHANGED is_scraping
       \/ /\ WGoto(w, "L374", "L432")
          /\ is_scraping' = FALSE
          /\ UNCHANGED status
    /\ UNCHANGED <<current, total, data, stop_event, launched, wi, wn,
                   wlimit, wgeocode, wdata, wcount>>

\* lines 378-389: the status write, then scrape_state_page finds n URLs and
\* the limit is applied; a limit that is no integer makes the slice raise
worker_urls(w) ==
    /\ wpc[w] = "L378"
    /\ status' = St("Finding", 0, 0)
    /\ \E n \in 0..MaxUrls :
         IF n = 0
         THEN /\ wpc' = [wpc EXCEPT ![w] = "L383"]
              /\ wn' = [wn EXCEPT ![w] = 0]
         ELSE IF wlimit[w].kind = "str"
         THEN /\ wpc' = [wpc EXCEPT ![w] = "L428"]
              /\ wn' = [wn EXCEPT ![w] = 0]
         ELSE /\ wpc' = [wpc EXCEPT ![w] = "L391"]
              /\ wn' = [wn EXCEPT ![w] =
                          IF wlimit[w].kind = "int" THEN Min(n, wlimit[w].n)
                          ELSE n]
    /\ wlimit' = [wlimit EXCEPT ![w] = NoLimit]
    /\ wi' = [wi EXCEPT ![w] = 0]
    /\ UNCHANGED <<is_scraping, current, total, data, stop_event, launched,
                   wgeocode, wdata, wcount>>

\* lines 383-385: no pantries found
worker_no_pantries(w) ==
    /\ \/ /\ WGoto(w, "L383", "L384")
          /\ status' = St("NoPantries", 0, 0)
          /\ UNCHANGED is_scraping
       \/ /\ WGoto(w, "L384", "L432")
          /\ is_scraping' = FALSE
          /\ UNCHANGED status
    /\ UNCHANGED <<current, total, data, stop_event, launched, wi, wn,
                   wlimit, wgeocode, wdata, wcount>>

\* lines 391-392
worker_totals(w) ==
    /\ \/ /\ WGoto(w, "L391", "L392")
          /\ total' = wn[w]
          /\ UNCHANGED data
       \/ /\ WGoto(w, "L392", "L397")
          /\ data' = << >>
          /\ UNCHANGED total
    /\ UNCHANGED <<is_scraping, current, status, stop_event, launched, wi,
                   wn, wlimit, wgeocode, wdata, wcount>>

\* lines 397-399: the checkpoint at the head of each iteration
worker_checkpoint(w) ==
    /\ \/ /\ wpc[w] = "L397"
          /\ wpc' = [wpc EXCEPT ![w] = IF stop_event THEN "L398" ELSE "L401"]
          /\ UNCHANGED status
       \/ /\ WGoto(w, "L398", "L424")
          /\ status' = St("Stopped", 0, 0)
    /\ UNCHANGED <<is_scraping, current, total, data, stop_event, launched,
                   wi, wn, wlimit, wgeocode, wdata, wcount>>

\* lines 401-402
worker_progress(w) ==
    /\ \/ /\ WGoto(w, "L401", "L402")
          /\ current' = wi[w] + 1
          /\ UNCHANGED status
       \/ /\ WGoto(w, "L402", "L404")
          /\ status' = St("Scraping", wi[w] + 1, wn[w])
          /\ UNCHANGED current
    /\ UNCHANGED <<is_scraping, total, data, stop_event, launched, wi, wn,
                   wlimit, wgeocode, wdata, wcount>>

\* the end of an iteration (line 422) and the loop's test for a next item
NextItem(w) ==
    /\ wi' = [wi EXCEPT ![w] = wi[w] + 1]
    /\ wpc' = [wpc EXCEPT ![w] = IF wi[w] + 1 = wn[w] THEN "L424" ELSE "L397"]
    /\ wdata' = [wdata EXCEPT ![w] = NoData]

\* geocoder and data.get('address') and data.get('city') and data.get('state')
WantsGeocode(w, d) ==
    wgeocode[w] /\ Truthy(d.address) /\ Truthy(d.city) /\ Truthy(d.state)

\* worker_scrape with scrape_pantry_details letting its exception through
\* (lines 352-356 left out): the failure reaches line 427
worker_scrape_raising(w) ==
    /\ wpc[w] = "L404"
    /\ \E out \in ScrapeOutcomes :
         IF out = NoData
         THEN /\ wpc' = [wpc EXCEPT ![w] = "L428"]
              /\ UNCHANGED <<wi, wdata>>
         ELSE LET d == [out[1] EXCEPT !.url = wi[w] + 1]
              IN  /\ wdata' = [wdata EXCEPT ![w] = <<d>>]
                  /\ wpc' = [wpc EXCEPT ![w] =
                               IF WantsGeocode(w, d) THEN "L408" ELSE "L419"]
                  /\ UNCHANGED wi
    /\ UNCHANGED <<jobVars, launched, wn, wlimit, wgeocode, wcount>>

\* lines 404-407: scrape_pantry_details and the test of what it returned;
\* a dict is truthy whatever its values are
worker_scrape(w) ==
    /\ wpc[w] = "L404"
    /\ \E out \in ScrapeOutcomes :
         IF out = NoData
         THEN NextItem(w)
         ELSE LET d == [out[1] EXCEPT !.url = wi[w] + 1]
              IN  /\ wdata' = [wdata EXCEPT ![w] = <<d>>]
                  /\ wpc' = [wpc EXCEPT ![w] =
                               IF WantsGeocode(w, d) THEN "L408" ELSE "L419"]
                  /\ UNCHANGED wi
    /\ UNCHANGED <<jobVars, launched, wn, wlimit, wgeocode, wcount>>

\* lines 408-417: the status write, then the geocoder's answer
worker_geocode(w) ==
    /\ WGoto(w, "L408", "L419")
    /\ status' = St("Geocoding", wi[w] + 1, wn[w])
    /\ \E geo \in {None, Some(<<"5">>)} :
         wdata' = [wdata EXCEPT ![w] = <<[wdata[w][1] EXCEPT !.latitude = geo]>>]
    /\ UNCHANGED <<is_scraping, current, total, data, stop_event, launched,
                   wi, wn, wlimit, wgeocode, wcount>>

\* line 419
worker_append(w) ==
    /\ wpc[w] = "L419"
    /\ data' = Append(data, wdata[w][1])
    /\ NextItem(w)
    /\ UNCHANGED <<is_scraping, current, total, status, stop_event, launched,
                   wn, wlimit, wgeocode, wcount>>

\* lines 424-425: the test of stop_event, then len(data), then the write
worker_completed(w) ==
    /\ \/ /\ wpc[w] = "L424"
          /\ wpc' = [wpc EXCEPT ![w] = IF stop_event THEN "L432" ELSE "L425"]
          /\ UNCHANGED <<status, wcount>>
       \/ /\ WGoto(w, "L425", "L426")
          /\ wcount' = [wcount EXCEPT ![w] = Len(data)]
          /\ UNCHANGED status
       \/ /\ WGoto(w, "L426", "L432")
          /\ status' = St("Completed", wcount[w], 0)
          /\ wcount' = [wcount EXCEPT ![w] = 0]
    /\ UNCHANGED <<is_scraping, current, total, data, stop_event, launched,
                   wi, wn, wlimit, wgeocode, wdata>>

\* lines 427-428
worker_error(w) ==
    /\ WGoto(w, "L428", "L432")
    /\ status' = St("Error", 0, 0)
    /\ UNCHANGED <<is_scraping, current, total, data, stop_event, launched,
                   wi, wn, wlimit, wgeocode, wdata, wcount>>

\* lines 431-432
worker_finally(w) ==
    /\ WGoto(w, "L432", "done")
    /\ is_scraping' = FALSE
    /\ wgeocode' = [wgeocode EXCEPT ![w] = FALSE]
    /\ wi' = [wi EXCEPT ![w] = 0]
    /\ wn' = [wn EXCEPT ![w] = 0]
    /\ UNCHANGED <<current, total, status, data, stop_event, launched,
                   wlimit, wdata, wcount>>

scrape_in_background(w) ==
    /\ \/ worker_clear(w)
       \/ worker_states(w)
       \/ worker_not_found(w)
       \/ worker_urls(w)
       \/ worker_no_pantries(w)
       \/ worker_totals(w)
       \/ worker_checkpoint(w)
       \/ worker_progress(w)
       \/ worker_scrape(w)
       \/ worker_geocode(w)
       \/ worker_append(w)
       \/ worker_completed(w)
       \/ worker_error(w)
       \/ worker_finally(w)
    /\ UNCHANGED <<clientVars, statusVars, stopAt>>

---------------------------------------------------------------------------
(* The job: request threads and workers interleave one access at a time *)

\* the job tuples a get_status call in flight has lived through
SeenNext ==
    seen' = IF spc' = "idle" THEN {}
            ELSE IF spc = "idle" THEN {JobTuple'}
            ELSE seen \cup {JobTuple'}

\* no caller of the Pantry methods outside the store
CallInit ==
    /\ recA = << >>
    /\ recB = << >>
    /\ recC = << >>
    /\ results = << >>

\* no MultiSourceScraper at work
CoordInit ==
    /\ sources = << >>
    /\ limit = 0
    /\ src_i = 0
    /\ src_pc = "done"
    /\ src_urls = 0
    /\ source_counts = << >>
    /\ printed = << >>
    /\ ran = << >>
    /\ extracted = {}

\* no page being taken apart
CascadeInit ==
    /\ cascade = << >>
    /\ page_text = << >>
    /\ pattern_i = 0
    /\ field_value = << >>
    /\ cascade_pc = "done"
    /\ searched = << >>

Init == JobInit /\ StoreInit /\ CallInit /\ CoordInit /\ CascadeInit

\* a step of the job: the store is another program's
Job(A) ==
    /\ A
    /\ SeenNext
    /\ UNCHANGED <<idleStop, storeVars, callVars, coordVars, cascadeVars>>

\* a stop request: a step of the job that is remembered when no job runs
JobStop(A) ==
    /\ A
    /\ SeenNext
    /\ idleStop' = IF is_scraping THEN idleStop
                   ELSE [requested |-> TRUE, follower |-> 0]
    /\ UNCHANGED <<storeVars, callVars, coordVars, cascadeVars>>

\* the start of a worker thread: a step of the job that follows an idle stop
JobStart(A) ==
    /\ A
    /\ SeenNext
    /\ idleStop' = IF idleStop.requested /\ idleStop.follower = 0
                   THEN [idleStop EXCEPT !.follower = launched + 1]
                   ELSE idleStop
    /\ UNCHANGED <<storeVars, callVars, coordVars, cascadeVars>>

\* a step of a worker thread
Worker(A) == Job(A /\ UNCHANGED <<clientVars, statusVars, stopAt>>)

\* One client issues start requests one after the other, stop requests come
\* at any time, and the workers run.
Next ==
    \/ (Job(start_request("c1")))
    \/ (Job(start_check("c1")))
    \/ (Job(start_parse("c1")))
    \/ (Job(start_reset("c1")))
    \/ (JobStart(start_thread("c1")))
    \/ JobStop(stop_scrape)
    \/ \E w \in Workers : (Worker(worker_clear(w)))
    \/ \E w \in Workers : (Worker(worker_states(w)))
    \/ \E w \in Workers : (Worker(worker_not_found(w)))
    \/ \E w \in Workers : (Worker(worker_urls(w)))
    \/ \E w \in Workers : (Worker(worker_no_pantries(w)))
    \/ \E w \in Workers : (Worker(worker_totals(w)))
    \/ \E w \in Workers : (Worker(worker_checkpoint(w)))
    \/ \E w \in Workers : (Worker(worker_progress(w)))
    \/ \E w \in Workers : (Worker(worker_scrape(w)))
    \/ \E w \in Workers : (Worker(worker_geocode(w)))
    \/ \E w \in Workers : (Worker(worker_append(w)))
    \/ \E w \in Workers : (Worker(worker_completed(w)))
    \/ \E w \in Workers : (Worker(worker_error(w)))
    \/ \E w \in Workers : (Worker(worker_finally(w)))

Spec == Init /\ [][Next]_vars

\* The inputs of the two specifications below: one URL is discovered, the
\* request carries no limit and no geocoding, and every page has a name.
SmallInputs ==
    /\ \A w \in Workers : wn[w] <= 1 /\ ~wgeocode[w]
    /\ \A w \in Workers : wdata[w] # <<EmptyPage>>
    /\ \A c \in Clients : climit[c] = NoLimit

Small(A) == A /\ SmallInputs'

\* Two clients issue start requests concurrently.
RaceNext ==
    \/ \E c \in Clients : Small(Job(start_request(c)))
    \/ \E c \in Clients : Small(Job(start_check(c)))
    \/ \E c \in Clients : Small(Job(start_parse(c)))
    \/ \E c \in Clients : Small(Job(start_reset(c)))
    \/ \E c \in Clients : Small(JobStart(start_thread(c)))
    \/ JobStop(stop_scrape)
    \/ \E w \in Workers : Small(Worker(worker_clear(w)))
    \/ \E w \in Workers : Small(Worker(worker_states(w)))
    \/ \E w \in Workers : Small(Worker(worker_not_found(w)))
    \/ \E w \in Workers : Small(Worker(worker_urls(w)))
    \/ \E w \in Workers : Small(Worker(worker_no_pantries(w)))
    \/ \E w \in Workers : Small(Worker(worker_totals(w)))
    \/ \E w \in Workers : Small(Worker(worker_checkpoint(w)))
    \/ \E w \in Workers : Small(Worker(worker_progress(w)))
    \/ \E w \in Workers : Small(Worker(worker_scrape(w)))
    \/ \E w \in Workers : Small(Worker(worker_append(w)))
    \/ \E w \in Workers : Small(Worker(worker_completed(w)))
    \/ \E w \in Workers : Small(Worker(worker_finally(w)))

RaceSpec == Init /\ [][RaceNext]_vars

\* One client polls get_status while a job runs.
StatusNext ==
    \/ Small(Job(start_request("c1")))
    \/ Small(Job(start_check("c1")))
    \/ Small(Job(start_parse("c1")))
    \/ Small(Job(start_reset("c1")))
    \/ Small(JobStart(start_thread("c1")))
    \/ Job(get_status)
    \/ \E w \in Workers : Small(Worker(worker_clear(w)))
    \/ \E w \in Workers : Small(Worker(worker_states(w)))
    \/ \E w \in Workers : Small(Worker(worker_not_found(w)))
    \/ \E w \in Workers : Small(Worker(worker_urls(w)))
    \/ \E w \in Workers : Small(Worker(worker_no_pantries(w)))
    \/ \E w \in Workers : Small(Worker(worker_totals(w)))
    \/ \E w \in Workers : Small(Worker(worker_checkpoint(w)))
    \/ \E w \in Workers : Small(Worker(worker_progress(w)))
    \/ \E w \in Workers : Small(Worker(worker_scrape(w)))
    \/ \E w \in Workers : Small(Worker(worker_append(w)))
    \/ \E w \in Workers : Small(Worker(worker_completed(w)))
    \/ \E w \in Workers : Small(Worker(worker_finally(w)))

StatusSpec == Init /\ [][StatusNext]_vars

---------------------------------------------------------------------------
(* DeduplicatedPantryDatabase (foodpantries-scraper.py:53-87) *)

\* Pantry(name=..., address=..., zip=..., phone=..., website=..., hours=...,
\* source_site=...): the fields left out default to None
Pantry(name, address, zip, phone, website, hours, source_site) ==
    [field \in PantryFields |->
        CASE field = "name" -> name
          [] field = "address" -> address
          [] field = "zip" -> zip
          [] field = "phone" -> phone
          [] field = "website" -> website
          [] field = "hours" -> hours
          [] field = "source_site" -> source_site
          [] OTHER -> None]

\* the records the scrapers hand to the store
PantryInputs ==
    { Pantry(Some(<<"A", "b">>), Some(<<"b">>), Some(<<"6">>),
             Some(<<"(", "5", ")", "1">>), None, Some(<<"1">>), Some(<<"a">>)),
      Pantry(Some(<<"a", "b", " ">>), Some(<<"B">>), Some(<<"6">>),
             Some(<<"5", "-", "1">>), Some(<<"a">>), None, Some(<<"b">>)),
      Pantry(Some(<<"A", "B">>), Some(<<" ", "b">>), Some(<<"6">>),
             Some(<<"5", "1">>), Some(<<"a", "b">>), Some(<<"1", "5">>),
             Some(<<"b">>)),
      Pantry(Some(<<"a">>), None, None, None, None, None, Some(<<"a">>)),
      Pantry(Some(<<"A">>), Some(<< >>), None, None, Some(<<"b">>), None,
             Some(<<"b">>)),
      Pantry(Some(<<"a", "|", "b">>), Some(<<"b">>), None, None, None, None,
             Some(<<"a">>)),
      Pantry(Some(<<"a">>), Some(<<"b", "|", "b">>), None, None, None, None,
             Some(<<"b">>)) }

\* self.pantries[key] = value
DictSet(d, key, value) ==
    [k \in DOMAIN d \cup {key} |-> IF k = key THEN value ELSE d[k]]

\* add_pantry without line 70: the fingerprint is never remembered
add_pantry_forgetful(pantry) ==
    LET fingerprint == get_fingerprint(pantry)
    IN  /\ adds < MaxAdds
        /\ pantries' = DictSet(pantries, fingerprint, pantry)
        /\ ret' = TRUE
        /\ arg' = <<pantry>>
        /\ adds' = adds + 1
        /\ added' = added \cup {pantry}
        /\ UNCHANGED fingerprints

\* add_pantry with line 66 merging the other way round
add_pantry_swapped(pantry) ==
    LET fingerprint == get_fingerprint(pantry)
    IN  /\ adds < MaxAdds
        /\ IF fingerprint \in fingerprints
           THEN /\ pantries' = DictSet(pantries, fingerprint,
                                       merge_with(pantry, pantries[fingerprint]))
                /\ ret' = FALSE
                /\ UNCHANGED fingerprints
           ELSE /\ pantries' = DictSet(pantries, fingerprint, pantry)
                /\ fingerprints' = fingerprints \cup {fingerprint}
                /\ ret' = TRUE
        /\ arg' = <<pantry>>
        /\ adds' = adds + 1
        /\ added' = added \cup {pantry}

add_pantry(pantry) ==
    LET fingerprint == get_fingerprint(pantry)
    IN  /\ adds < MaxAdds
        /\ IF fingerprint \in fingerprints
           THEN LET existing == pantries[fingerprint]
                IN  /\ pantries' = DictSet(pantries, fingerprint,
                                           merge_with(existing, pantry))
                    /\ ret' = FALSE
                    /\ UNCHANGED fingerprints
           ELSE /\ pantries' = DictSet(pantries, fingerprint, pantry)
                /\ fingerprints' = fingerprints \cup {fingerprint}
                /\ ret' = TRUE
        /\ arg' = <<pantry>>
        /\ adds' = adds + 1
        /\ added' = added \cup {pantry}

\* get_all: the stored records
get_all == {pantries[k] : k \in DOMAIN pantries}

\* a step of the store: the job is another program's
Store(A) ==
    A /\ UNCHANGED <<jobVars, clientVars, workerVars, statusVars, seen, stopAt,
                     idleStop,
                     callVars, coordVars, cascadeVars>>

StoreNext == \E pantry \in PantryInputs : Store(add_pantry(pantry))

StoreSpec == Init /\ [][StoreNext]_vars

---------------------------------------------------------------------------
(* MultiSourceScraper (foodpantries-scraper.py:458-552) *)

\* the keys of Network211Scraper.COMMUNITYOS_SITES (lines 268-274)
COMMUNITYOS_SITES ==
    {"wisconsin", "pennsylvania", "indiana", "ventura", "sacramento"}

\* A source identifier is the sequence of its pieces: each occurrence of
\* "211-" is a piece and so is the text between two of them.
SourceInputs ==
    { <<"foodpantries.org">>, <<"211-", "wisconsin">>, <<"211-", "Wisconsin">>,
      <<"211-", "nowhere">>, <<"bogus">> }

\* the `sources` argument: lists of one to three identifiers
SourceLists == UNION { [1..n -> SourceInputs] : n \in {1, 2, 3} }

\* the `limit` argument: 0 stands for None and for 0, which `if limit:`
\* treats alike
CoordLimits == {0, 1}

\* what scrape_pantry_details / scrape_pantry_detail returns for a page:
\* None, or a Pantry; two of the pantries have one fingerprint
PageOutcomes ==
    { None,
      Some(Pantry(Some(<<"A", "b">>), Some(<<"b">>), Some(<<"6">>),
                  Some(<<"5", "1">>), None, Some(<<"1">>), Some(<<"a">>))),
      Some(Pantry(Some(<<"a", "b", " ">>), Some(<<"B">>), Some(<<"6">>),
                  Some(<<"5", "-", "1">>), Some(<<"a">>), None, Some(<<"b">>))),
      Some(Pantry(Some(<<"a">>), None, None, None, None, None, Some(<<"b">>))) }

\* source.startswith('211-')
startswith_211(source) == source # << >> /\ Head(source) = "211-"

\* source.replace('211-', ''): every occurrence goes
replace_211(source) == SelectSeq(source, LAMBDA piece : piece # "211-")

\* region.lower()
region_lower(region) ==
    [i \in 1..Len(region) |->
        IF region[i] = "Wisconsin" THEN "wisconsin" ELSE region[i]]

\* region.lower() not in self.COMMUNITYOS_SITES (line 277)
unknown_region(region) ==
    ~(Len(region) = 1 /\ region_lower(region)[1] \in COMMUNITYOS_SITES)

\* the for loop of scrape_state moves to the next source
NextSource ==
    /\ src_i' = src_i + 1
    /\ src_pc' = "for"
    /\ src_urls' = 0

\* lines 471-484: the loop over the sources and the choice of the scraper
scrape_state ==
    /\ src_pc = "for"
    /\ IF src_i > Len(sources)
       THEN /\ src_pc' = "done"
            /\ UNCHANGED <<src_i, src_urls, printed>>
       ELSE LET source == sources[src_i]
            IN  IF source = <<"foodpantries.org">>
                THEN /\ src_pc' = "foodpantries"
                     /\ UNCHANGED <<src_i, src_urls, printed>>
                ELSE IF startswith_211(source)
                THEN /\ src_pc' = "211"
                     /\ UNCHANGED <<src_i, src_urls, printed>>
                ELSE /\ printed' = Append(printed, <<"Unknown source", source>>)
                     /\ NextSource
    /\ UNCHANGED <<sources, limit, source_counts, ran, extracted, storeVars>>

\* n URLs were found: the loop over them starts, or the source is done
StartUrls(n, pc) ==
    LET urls == Min(n, MaxAdds - adds)
    IN  IF urls = 0
        THEN NextSource
        ELSE /\ src_urls' = urls
             /\ src_pc' = pc
             /\ UNCHANGED src_i

\* _scrape_foodpantries, lines 488-501: the state is looked up (an error in
\* get_state_urls gives no states), its URLs are listed and the limit applied
scrape_foodpantries ==
    /\ src_pc = "foodpantries"
    /\ \E found \in BOOLEAN, n \in 0..MaxUrls :
         IF ~found
         THEN NextSource
         ELSE StartUrls(IF limit # 0 THEN Min(n, limit) ELSE n, "foodpantries_url")
    /\ ran' = Append(ran, sources[src_i])
    /\ UNCHANGED <<sources, limit, source_counts, printed, extracted, storeVars>>

\* scrape_211 without the try of line 522: the ValueError of line 278 ends
\* scrape_state
scrape_211_unguarded ==
    /\ src_pc = "211"
    /\ LET region == replace_211(sources[src_i])
       IN  IF unknown_region(region)
           THEN /\ src_pc' = "raised"
                /\ UNCHANGED <<src_i, src_urls, printed, ran>>
           ELSE /\ \E n \in 0..MaxUrls :
                     StartUrls(IF limit # 0 THEN Min(n, limit) ELSE n, "211_url")
                /\ ran' = Append(ran, sources[src_i])
                /\ UNCHANGED printed
    /\ UNCHANGED <<sources, limit, source_counts, extracted, storeVars>>

\* _scrape_211, lines 522-525 and 541-542: the constructor raises on an
\* unknown region, which is printed; else search_food_pantries lists the
\* URLs, up to the limit
scrape_211 ==
    /\ src_pc = "211"
    /\ LET region == replace_211(sources[src_i])
       IN  IF unknown_region(region)
           THEN /\ printed' = Append(printed, <<"Error scraping 211", region>>)
                /\ NextSource
                /\ UNCHANGED ran
           ELSE /\ \E n \in 0..MaxUrls :
                     StartUrls(IF limit # 0 THEN Min(n, limit) ELSE n, "211_url")
                /\ ran' = Append(ran, sources[src_i])
                /\ UNCHANGED printed
    /\ UNCHANGED <<sources, limit, source_counts, extracted, storeVars>>

\* self.source_counts[source] = self.source_counts.get(source, 0) + 1
CountSource(source) ==
    source_counts' =
        DictSet(source_counts, source,
                (IF source \in DOMAIN source_counts THEN source_counts[source]
                 ELSE 0) + 1)

\* one turn of the loop over the URLs (lines 503-515 and 527-539): the page
\* is scraped and, if that gave a pantry, the pantry is added and counted
scrape_url(pc) ==
    /\ src_pc = pc
    /\ \E page \in PageOutcomes :
         IF page = None
         THEN UNCHANGED <<storeVars, source_counts, extracted>>
         ELSE /\ add_pantry(page[1])
              /\ CountSource(page[1].source_site)
              /\ extracted' = extracted \cup {page[1]}
    /\ IF src_urls = 1
       THEN NextSource
       ELSE /\ src_urls' = src_urls - 1
            /\ UNCHANGED <<src_i, src_pc>>
    /\ UNCHANGED <<sources, limit, printed, ran>>

scrape_foodpantries_url == scrape_url("foodpantries_url")

scrape_211_url == scrape_url("211_url")

\* a step of the coordinator, which owns its store
Coordinator(A) ==
    A /\ UNCHANGED <<jobVars, clientVars, workerVars, statusVars, seen, stopAt,
                     idleStop,
                     callVars, cascadeVars>>

\* scraper = MultiSourceScraper(); scraper.scrape_state(state, limit, sources)
SourceInit ==
    /\ JobInit
    /\ StoreInit
    /\ CallInit
    /\ CascadeInit
    /\ sources \in SourceLists
    /\ limit \in CoordLimits
    /\ src_i = 1
    /\ src_pc = "for"
    /\ src_urls = 0
    /\ source_counts = << >>
    /\ printed = << >>
    /\ ran = << >>
    /\ extracted = {}

SourceNext ==
    \/ Coordinator(scrape_state)
    \/ Coordinator(scrape_foodpantries)
    \/ Coordinator(scrape_211)
    \/ Coordinator(scrape_foodpantries_url)
    \/ Coordinator(scrape_211_url)

SourceSpec == SourceInit /\ [][SourceNext]_vars

---------------------------------------------------------------------------
(* The cascades of patterns (foodpantries-scraper.py:395-435,               *)
(* flask-scraper-backend.py:313-325)                                       *)

\* len(hours_text) < 500 (foodpantries-scraper.py:405)
HoursCap == 500
\* len(desc_text) < 1000 (foodpantries-scraper.py:419)
DescriptionCap == 1000
\* len(req_text) < 500 (foodpantries-scraper.py:433)
RequirementsCap == 500
\* len(hours_text) < 500 (flask-scraper-backend.py:323)
BackendHoursCap == 500

\* the lists of patterns: the field they fill, the bound of the length test
\* and the number of patterns in the list
Cascades ==
    { [scraper |-> "211", field |-> "hours", cap |-> HoursCap, patterns |-> 2],
      [scraper |-> "211", field |-> "description", cap |-> DescriptionCap,
       patterns |-> 2],
      [scraper |-> "211", field |-> "requirements", cap |-> RequirementsCap,
       patterns |-> 2],
      [scraper |-> "backend", field |-> "hours", cap |-> BackendHoursCap,
       patterns |-> 2] }

\* what re.search finds for one pattern: None, or a group of `len`
\* characters (at least one: [^\n]+) of which `pad` are white space around
\* the text; the lengths are 1 and those next to the bound
Matches(c) ==
    {None} \cup
    { Some([len |-> n, pad |-> k]) :
        n \in {1, c.cap - 1, c.cap, c.cap + 1}, k \in {0, 1} }

\* match.group(...).strip(): the text, named by the pattern that captured
\* it and by its length
stripped(i, match) == [pattern |-> i, len |-> match[1].len - match[1].pad]

\* one turn of `for pattern in ..._patterns`: the search, the length test,
\* the assignment and the break
cascade_search ==
    /\ cascade_pc = "for"
    /\ searched' = Append(searched, pattern_i)
    /\ LET match == page_text[pattern_i]
       IN  IF match # None /\ stripped(pattern_i, match).len < cascade.cap
           THEN /\ field_value' = Some(stripped(pattern_i, match))
                /\ cascade_pc' = "done"
                /\ UNCHANGED pattern_i
           ELSE /\ pattern_i' = pattern_i + 1
                /\ cascade_pc' =
                      IF pattern_i = cascade.patterns THEN "done" ELSE "for"
                /\ UNCHANGED field_value
    /\ UNCHANGED <<cascade, page_text>>

\* a step of the detail scraper
Scraper(A) ==
    A /\ UNCHANGED <<jobVars, clientVars, workerVars, statusVars, seen, stopAt,
                     idleStop,
                     storeVars, callVars, coordVars>>

\* the field starts as None and the loop at the first pattern
CascadeStart ==
    /\ JobInit
    /\ StoreInit
    /\ CallInit
    /\ CoordInit
    /\ cascade \in Cascades
    /\ page_text \in [1..cascade.patterns -> Matches(cascade)]
    /\ pattern_i = 1
    /\ field_value = None
    /\ cascade_pc = "for"
    /\ searched = << >>

CascadeNext == Scraper(cascade_search)

CascadeSpec == CascadeStart /\ [][CascadeNext]_vars

---------------------------------------------------------------------------
(* Calls of Pantry.merge_with (foodpantries-scraper.py:38-50) *)

\* the values a field of the merged records takes: None, "", two strings of
\* the same length and two longer ones
FieldValues ==
    {None, Some(<< >>), Some(<<"a">>), Some(<<"b">>), Some(<<"a", "b">>),
     Some(<<"b", "a", "b">>)}

\* the records handed to merge_with
MergeInputs ==
    { Pantry(Some(<<"a">>), None, None, phone, website, hours, Some(<<"a">>)) :
        phone \in {None, Some(<<"5">>)},
        website \in FieldValues,
        hours \in {None, Some(<<"1">>)} }

\* a step of the caller: the job and the store are other programs'
Caller(A) ==
    A /\ UNCHANGED <<jobVars, clientVars, workerVars, statusVars, seen, stopAt,
                     idleStop,
                     storeVars, recA, recB, recC, coordVars, cascadeVars>>

\* name = <the call>, made once the calls in `after` have returned
Returns(after, name, value) ==
    /\ DOMAIN results = after
    /\ results' = DictSet(results, name, value)

\* aa = recA.merge_with(recA)
merge_aa == Returns({}, "aa", merge_with(recA, recA))
\* ab = recA.merge_with(recB)
merge_ab == Returns({"aa"}, "ab", merge_with(recA, recB))
\* ab_c = ab.merge_with(recC)
merge_ab_c == Returns({"aa", "ab"}, "ab_c", merge_with(results["ab"], recC))
\* bc = recB.merge_with(recC)
merge_bc == Returns({"aa", "ab", "ab_c"}, "bc", merge_with(recB, recC))
\* a_bc = recA.merge_with(bc)
merge_a_bc ==
    Returns({"aa", "ab", "ab_c", "bc"}, "a_bc", merge_with(recA, results["bc"]))

MergeInit ==
    /\ JobInit
    /\ StoreInit
    /\ CoordInit
    /\ CascadeInit
    /\ recA \in MergeInputs
    /\ recB \in MergeInputs
    /\ recC \in MergeInputs
    /\ results = << >>

MergeNext ==
    \/ Caller(merge_aa)
    \/ Caller(merge_ab)
    \/ Caller(merge_ab_c)
    \/ Caller(merge_bc)
    \/ Caller(merge_a_bc)

MergeSpec == MergeInit /\ [][MergeNext]_vars

---------------------------------------------------------------------------
(* Calls of Pantry.get_fingerprint (foodpantries-scraper.py:29-36) *)

\* the records whose fingerprints are taken: names and addresses in both
\* cases and with spaces around them, phones with and without punctuation,
\* fields that are None or empty
FingerprintInputs ==
    { Pantry(name, address, zip, phone, None, None, None) :
        name \in {Some(<< >>), Some(<<"A">>), Some(<<" ", "a">>), Some(<<"b">>)},
        address \in {None, Some(<< >>), Some(<<"B", " ">>), Some(<<"b">>)},
        zip \in {None, Some(<< >>), Some(<<"6">>)},
        phone \in {None, Some(<<"-">>), Some(<<"5", "-", "1">>),
                   Some(<<"(", "5", ")", "1">>)} }

\* fa = recA.get_fingerprint()
fingerprint_a == Returns({}, "fa", get_fingerprint(recA))
\* fb = recB.get_fingerprint()
fingerprint_b == Returns({"fa"}, "fb", get_fingerprint(recB))

FingerprintInit ==
    /\ JobInit
    /\ StoreInit
    /\ CoordInit
    /\ CascadeInit
    /\ recA \in FingerprintInputs
    /\ recB \in FingerprintInputs
    /\ recC = << >>
    /\ results = << >>

FingerprintNext ==
    \/ Caller(fingerprint_a)
    \/ Caller(fingerprint_b)

FingerprintSpec == FingerprintInit /\ [][FingerprintNext]_vars

---------------------------------------------------------------------------
(* Properties of the job *)

\* a first run has ended and no other has been asked for
OneRunEnded ==
    /\ launched = 1
    /\ wpc[1] = "done"
    /\ InFlight = {}

\* every run started so far has ended
RunsEnded ==
    /\ launched >= 1
    /\ ActiveWorkers = {}
    /\ InFlight = {}

TerminalKinds == {"Completed", "Stopped", "NotFound", "NoPantries", "Error"}

\* C1: at most one scrape_in_background worker is active at any time, under
\* any interleaving of start requests, stop requests and worker steps.
AtMostOneWorker == Cardinality(ActiveWorkers) <= 1

\* C2: a stop requested while the job is running, with a checkpoint still
\* ahead of the worker (also when the worker has not taken its first step),
\* ends the run in the Stopped state.
StopReachesStopped ==
    (OneRunEnded /\ total >= 1 /\ stopAt # NoStop /\ stopAt.cp < total)
        => status.kind = "Stopped"

\* C3: a start request that finds the job running is answered with a
\* conflict and changes nothing: current, total, status, data, is_scraping
\* and stop_event keep their values and no worker is created.
ConflictLeavesJobUntouched ==
    [][\A c \in Clients :
         (cpc[c] = "L461" /\ is_scraping /\ cpc'[c] # cpc[c])
            => /\ cpc'[c] = "idle"
               /\ cresp'[c] = "conflict"
               /\ UNCHANGED <<jobVars, workerVars>>]_vars

\* a start request was turned away while a worker was scraping
ConflictWitness ==
    \E c \in Clients :
        /\ cresp[c] = "conflict"
        /\ cpc[c] = "idle"
        /\ is_scraping
        /\ \E w \in Workers : wpc[w] = "L404"

\* C5: no two named records of the job's accumulated data have the same
\* fingerprint.
JobDataDeduplicated ==
    \A i, j \in 1..Len(data) :
        (i # j /\ Truthy(data[i].name) /\ Truthy(data[j].name))
            => get_fingerprint(data[i]) # get_fingerprint(data[j])

\* C6: every record of the job's accumulated data has a name.
JobDataNamed == \A i \in 1..Len(data) : Truthy(data[i].name)

\* C7: once every run has ended, the status text is a terminal message.
EndedStatusTerminal == RunsEnded => status.kind \in TerminalKinds

\* C8: what get_status returns equals the job's values at one instant
\* during the call.
StatusIsSnapshot == spc = "done" => snap \in seen

\* C9: a stop requested after item k of N is complete (1 <= k < N) ends the
\* run Stopped with current <= k + 1.
CancellationBound ==
    (OneRunEnded /\ stopAt # NoStop /\ 1 <= stopAt.k /\ stopAt.k < total)
        => /\ status.kind = "Stopped"
           /\ current <= stopAt.k + 1

\* the worker of the newest accepted start has written nothing to the job yet
NewestWorkerSilent ==
    /\ launched >= 1
    /\ wpc[launched] \in {"L365", "L369"}

\* C15: an accepted start resets current and total to zero, empties the
\* dataset, sets the phase to Running and launches the worker without waiting
\* for it; from the return of start until that worker's first write the job
\* shows current = 0, total = 0 and no records.
StartLeavesFreshJob ==
    /\ [](NewestWorkerSilent => current = 0 /\ total = 0 /\ data = << >>)
    /\ [][launched' = launched + 1 =>
            /\ is_scraping'
            /\ current' = 0 /\ total' = 0 /\ data' = << >>
            /\ wpc'[launched'] = "L365"]_vars

\* worker w's fetch or extraction of the item it is at fails in this step
ItemFails(w) ==
    /\ wpc[w] = "L404"
    /\ wpc'[w] # "L404"
    /\ wdata'[w] = NoData

\* C17: when the fetch or extraction of one detail URL fails only that URL
\* is skipped: the phase and the status do not change, the records
\* accumulated so far are kept, and the worker goes on to the next URL (to
\* the end of the loop after the last one).
FailedItemIsSkipped ==
    [][\A w \in Workers :
        ItemFails(w) =>
            /\ is_scraping' = is_scraping
            /\ status' = status
            /\ data' = data
            /\ current' = current /\ total' = total
            /\ wi'[w] = wi[w] + 1
            /\ wpc'[w] = IF wi[w] + 1 < wn[w] THEN "L397" ELSE "L424"]_vars

\* a run of two URLs whose first failed and whose second was scraped ended
\* Completed with the one record
SkippedItemWitness ==
    /\ OneRunEnded
    /\ total = 2
    /\ current = 2
    /\ Len(data) = 1
    /\ data[1].url = 2
    /\ status = St("Completed", 1, 0)

\* C18: a run that processes all the items it discovered, with no stop
\* request issued during it, ends Completed, its status reporting the number
\* of records scraped, and never Stopped.
UnstoppedRunCompletes ==
    RunsEnded /\ total >= 1 /\ current = total /\ stopAt = NoStop /\ ~stop_event
        => status = St("Completed", Len(data), 0)

\* C23: a stop request made while no job is running does not cancel a later
\* run: when the first worker started after a stop that was requested while
\* is_scraping was False reaches the end of its run (line 432) having found
\* items, with no stop requested during the run, it has processed all its
\* items and the status is Completed.
IdleStopDoesNotCancel ==
    \A w \in Workers :
        (/\ idleStop.follower = w
         /\ wpc[w] = "L432"
         /\ wn[w] >= 1
         /\ stopAt = NoStop
         /\ ~stop_event)
            => /\ wi[w] = wn[w]
               /\ status = St("Completed", Len(data), 0)

\* C22: in every reachable state of the job, across start, stop and worker
\* steps and the field-by-field reset of a new start after a finished run,
\* 0 <= current <= total and the number of accumulated records is at most
\* current.
ProgressWithinTotal ==
    /\ 0 <= current
    /\ current <= total
    /\ Len(data) <= current

---------------------------------------------------------------------------
(* Properties of the store *)

\* the call just made was add_pantry(arg[1])
Added == adds' = adds + 1

\* C4: the store holds one record per fingerprint handed to it, under that
\* fingerprint, and an add whose fingerprint is already stored puts a merge
\* result in place of an entry and leaves the number of stored records as
\* it was.
OneRecordPerFingerprint ==
    /\ [](/\ DOMAIN pantries = fingerprints
          /\ fingerprints = {get_fingerprint(p) : p \in added}
          /\ Cardinality(DOMAIN pantries) = Cardinality(fingerprints))
    /\ [][(Added /\ get_fingerprint(arg'[1]) \in DOMAIN pantries)
            => /\ Cardinality(DOMAIN pantries') = Cardinality(DOMAIN pantries)
               /\ pantries'[get_fingerprint(arg'[1])] \in
                      {merge_with(p, arg'[1]) : p \in get_all}]_vars

\* two adds collided and one record is stored for them
CollisionWitness ==
    /\ adds >= 2
    /\ ~ret
    /\ Cardinality(added) >= 2
    /\ Cardinality(DOMAIN pantries) < Cardinality(added)

\* C10: add_pantry returns True exactly when the fingerprint was not stored
\* and then stores the record as it is; otherwise it returns False and the
\* entry becomes merge_with(stored, incoming); every other entry is kept.
AddReportsIsNew ==
    [][Added =>
        LET pantry == arg'[1]
            fingerprint == get_fingerprint(pantry)
        IN  /\ ret' = (fingerprint \notin DOMAIN pantries)
            /\ DOMAIN pantries' = DOMAIN pantries \cup {fingerprint}
            /\ pantries'[fingerprint] =
                   IF fingerprint \in DOMAIN pantries
                   THEN merge_with(pantries[fingerprint], pantry)
                   ELSE pantry
            /\ \A k \in DOMAIN pantries :
                   k # fingerprint => pantries'[k] = pantries[k]]_vars

\* an add was merged into a stored record that differs from it, beside an
\* entry under another fingerprint
MergedAddWitness ==
    /\ ~ret
    /\ arg # << >>
    /\ pantries[get_fingerprint(arg[1])] # arg[1]
    /\ Cardinality(DOMAIN pantries) >= 2

\* C13: add(r) a second time right after add(r) leaves the number of stored
\* records unchanged and the record stored under r's fingerprint equal,
\* field by field, to what it was after the first add.
SecondAddChangesNothing ==
    [][(Added /\ arg # << >> /\ arg' = arg) =>
        LET fingerprint == get_fingerprint(arg[1])
        IN  /\ Cardinality(DOMAIN pantries') = Cardinality(DOMAIN pantries)
            /\ fingerprint \in DOMAIN pantries
            /\ \A field \in PantryFields :
                  pantries'[fingerprint][field] = pantries[fingerprint][field]
       ]_vars

\* the same record was added twice in a row: the second add merged it with
\* itself
SecondAddWitness ==
    /\ adds = 2
    /\ Cardinality(added) = 1
    /\ ret = FALSE
    /\ arg[1] \in added
    /\ Cardinality(DOMAIN pantries) = 1
    /\ pantries[get_fingerprint(arg[1])] = arg[1]

\* C21: after any sequence of add_pantry calls every stored record's own
\* fingerprint is the key it is stored under, merging never changing the
\* normalized name, address, phone digits or postal code, and the
\* fingerprints set is the key set of the pantries map.
StoredUnderOwnFingerprint ==
    /\ \A key \in DOMAIN pantries : get_fingerprint(pantries[key]) = key
    /\ fingerprints = DOMAIN pantries

---------------------------------------------------------------------------
(* Properties of merge_with *)

\* the field has a value
Present(v) == Truthy(v)

\* C11: merge(existing, incoming) decides every field on its own: when both
\* have a value the result is the longer string, the existing one on equal
\* length; when exactly one has a value the result is that value; when
\* neither has one the field stays without a value.  So merging a record
\* with a phone and no website with one with a website and no phone gives a
\* record with both.
MergeFieldByField ==
    "ab" \in DOMAIN results =>
        LET merged == results["ab"]
        IN  /\ \A field \in PantryFields :
                  LET existing == recA[field]
                      incoming == recB[field]
                  IN  /\ Present(existing) /\ Present(incoming)
                            /\ Len(incoming[1]) > Len(existing[1])
                         => merged[field] = incoming
                      /\ Present(existing) /\ Present(incoming)
                            /\ Len(incoming[1]) <= Len(existing[1])
                         => merged[field] = existing
                      /\ Present(existing) /\ ~Present(incoming)
                         => merged[field] = existing
                      /\ ~Present(existing) /\ Present(incoming)
                         => merged[field] = incoming
                      /\ ~Present(existing) /\ ~Present(incoming)
                         => ~Present(merged[field])
            /\ Present(recA.phone) /\ ~Present(recA.website)
                  /\ Present(recB.website) /\ ~Present(recB.phone)
               => Present(merged.phone) /\ Present(merged.website)

\* a record with a phone and no website was merged with one with a website
\* and no phone, and with an hours text of the same length
MergeCompletenessWitness ==
    /\ "ab" \in DOMAIN results
    /\ Present(recA.phone) /\ ~Present(recA.website)
    /\ Present(recB.website) /\ ~Present(recB.phone)
    /\ Present(recA.hours) /\ Present(recB.hours)
    /\ results["ab"].phone = recA.phone
    /\ results["ab"].website = recB.website

\* C12: merge(r, r) equals r in every field.
MergeIdempotent ==
    "aa" \in DOMAIN results =>
        \A field \in PantryFields : results["aa"][field] = recA[field]

\* a record with a value, an empty string and a None among its fields was
\* merged with itself
SelfMergeWitness ==
    /\ "aa" \in DOMAIN results
    /\ Present(recA.phone)
    /\ recA.website = Some(<< >>)
    /\ recA.hours = None
    /\ results["aa"] = recA

\* the three records held have one fingerprint
SameFingerprint ==
    /\ get_fingerprint(recA) = get_fingerprint(recB)
    /\ get_fingerprint(recB) = get_fingerprint(recC)

\* C19 as stated: merge is not associative, there are records A, B, C with
\* the same fingerprint for which merge(merge(A, B), C) differs in some field
\* from merge(A, merge(B, C)).
MergeNotAssociative ==
    LET Records == MergeInputs \cup {recA, recB, recC}
    IN  \E A \in Records, B \in Records, C \in Records :
            /\ get_fingerprint(A) = get_fingerprint(B)
            /\ get_fingerprint(B) = get_fingerprint(C)
            /\ \E field \in PantryFields :
                  merge_with(merge_with(A, B), C)[field]
                      # merge_with(A, merge_with(B, C))[field]

\* C19, amended: merge is associative, merge(merge(A, B), C) equals
\* merge(A, merge(B, C)) in every field for all records A, B, C.
MergeAssociative ==
    "a_bc" \in DOMAIN results =>
        \A field \in PantryFields :
            results["ab_c"][field] = results["a_bc"][field]

\* three records of one fingerprint with websites of lengths 1, 1 and 2
\* were merged in both groupings
ConflictingLengthsWitness ==
    /\ "a_bc" \in DOMAIN results
    /\ SameFingerprint
    /\ recA.website = Some(<<"a">>)
    /\ recB.website = Some(<<"b">>)
    /\ recC.website = Some(<<"a", "b">>)
    /\ results["ab"].website # results["bc"].website
    /\ results["ab_c"].website = recC.website

---------------------------------------------------------------------------
(* Properties of get_fingerprint *)

\* the text of a field, an absent field counting as an empty one
Text(v) == IF v = None THEN << >> ELSE v[1]

\* s without the spaces around it
Trimmed(s) ==
    LET inner == {i \in 1..Len(s) : s[i] # " "}
    IN  IF inner = {}
        THEN << >>
        ELSE SubSeq(s, CHOOSE i \in inner : \A j \in inner : i <= j,
                       CHOOSE i \in inner : \A j \in inner : i >= j)

\* s in lower case
LowerCased(s) == [i \in 1..Len(s) |-> LowerChar(s[i])]

\* the digits of s, in order
RECURSIVE DigitSequence(_)
DigitSequence(s) ==
    IF s = << >> THEN << >>
    ELSE IF Head(s) \in {"1", "5", "6"}
         THEN <<Head(s)>> \o DigitSequence(Tail(s))
         ELSE DigitSequence(Tail(s))

\* C14: two records whose names are equal after lower-casing and trimming,
\* whose addresses are equal after lower-casing and trimming, whose phones
\* hold the same digit sequence and whose postal codes are equal have the
\* same fingerprint, whatever the punctuation of the phone, the spaces
\* around and the case of the letters; an absent field equals an empty one.
FingerprintStable ==
    /\ "fb" \in DOMAIN results
    /\ Trimmed(LowerCased(Text(recA.name))) = Trimmed(LowerCased(Text(recB.name)))
    /\ Trimmed(LowerCased(Text(recA.address)))
          = Trimmed(LowerCased(Text(recB.address)))
    /\ DigitSequence(Text(recA.phone)) = DigitSequence(Text(recB.phone))
    /\ Text(recA.zip) = Text(recB.zip)
    => results["fa"] = results["fb"]

\* two records that differ in the case and the spaces of name and address,
\* in the punctuation of the phone and in None against "" got one fingerprint
CosmeticVariantsWitness ==
    /\ "fb" \in DOMAIN results
    /\ recA.name = Some(<<"A">>) /\ recB.name = Some(<<" ", "a">>)
    /\ recA.address = Some(<<"B", " ">>) /\ recB.address = Some(<<"b">>)
    /\ recA.phone = Some(<<"5", "-", "1">>)
    /\ recB.phone = Some(<<"(", "5", ")", "1">>)
    /\ recA.zip = None /\ recB.zip = Some(<< >>)
    /\ results["fa"] = results["fb"]

---------------------------------------------------------------------------
(* Properties of the coordinator *)

\* the identifiers the coordinator has a scraper for
KnownSources ==
    { <<"foodpantries.org">>, <<"211-", "wisconsin">>, <<"211-", "Wisconsin">> }

Recognized(source) == source \in KnownSources

Unrecognized(source) == source \notin KnownSources

\* scrape_state has returned or raised
CoordinatorEnded == src_pc \in {"done", "raised"}

\* C16: an unrecognized source identifier, a '211-' one with an unknown
\* region included, is only noted and skipped: every other source of the list
\* is run, in the order of the list, and every record extracted from those
\* is in the dataset.
SourceIsolation ==
    CoordinatorEnded =>
        LET skipped == SelectSeq(sources, Unrecognized)
        IN  /\ src_pc = "done"
            /\ ran = SelectSeq(sources, Recognized)
            /\ Len(printed) = Len(skipped)
            /\ \A i \in 1..Len(skipped) :
                  printed[i][2] \in {skipped[i], Tail(skipped[i])}
            /\ \A p \in extracted :
                  /\ get_fingerprint(p) \in fingerprints
                  /\ get_fingerprint(p) \in DOMAIN pantries
            /\ extracted = added

\* a list of a '211-' identifier with an unknown region, a valid source and
\* an unknown identifier was worked through: both were noted and the valid
\* source gave two records
MixedSourcesWitness ==
    /\ src_pc = "done"
    /\ sources = << <<"211-", "nowhere">>, <<"foodpantries.org">>, <<"bogus">> >>
    /\ Len(printed) = 2
    /\ ran = << <<"foodpantries.org">> >>
    /\ Cardinality(extracted) = 2
    /\ Cardinality(DOMAIN pantries) = 2

---------------------------------------------------------------------------
(* Properties of the cascades *)

\* pattern i matches and its text does not exceed the cap
Qualifies(i) ==
    /\ page_text[i] # None
    /\ page_text[i][1].len - page_text[i][1].pad <= cascade.cap

\* C20: the value of a cascaded field is the capture of the first pattern,
\* in list order, that matches and whose text does not exceed the cap (500
\* for hours and requirements, 1000 for description): a longer match is
\* discarded and the next pattern tried, a text of exactly the cap's length
\* is kept, the patterns after the winning one are not tried, and the field
\* is absent when no pattern qualifies.
CascadeFirstWithinCap ==
    cascade_pc = "done" =>
        LET qualifying == {i \in 1..cascade.patterns : Qualifies(i)}
        IN  IF qualifying = {}
            THEN /\ field_value = None
                 /\ searched = [i \in 1..cascade.patterns |-> i]
            ELSE LET winner == CHOOSE i \in qualifying :
                                   \A j \in qualifying : i <= j
                 IN  /\ field_value = Some(stripped(winner, page_text[winner]))
                     /\ searched = [i \in 1..winner |-> i]

====
